---- MODULE Spec2Model ----
(***************************************************************************)
(* servidor.js: an Express application with five CRUD endpoints over the   *)
(* table `usuarios`, reached through one shared mysql2 connection `db`.    *)
(*                                                                         *)
(* A route handler runs when a request arrives; all but a rejected POST    *)
(* hand one statement to db.query together with a callback.  The single    *)
(* connection runs its commands one at a time, in the order they were      *)
(* queued, and calls each callback with (err, result); the callback sends  *)
(* the response.  A statement the store never answers keeps its callback   *)
(* waiting for ever: the model has no fairness unless a specification      *)
(* states it.                                                              *)
(*                                                                         *)
(* Spec runs the endpoints one request at a time over every body and path  *)
(* id tried; ConcSpec keeps several requests in flight over fewer inputs;  *)
(* FairConcSpec adds that the store answers every statement.               *)
(***************************************************************************)
EXTENDS Integers, Sequences, FiniteSets, TLC

\* Clients, each with at most one request outstanding; a client may send its
\* next request once the previous one has been answered.
MaxReq == 2
\* Number of rows the store is asked to insert in one run (caps AUTO_INCREMENT).
MaxId == 2

Clients == 1..MaxReq
\* The :id path parameters tried: every id the table can hold and one beyond.
PathIds == 1..(MaxId + 1)

\* JavaScript `undefined`: the value of a key that req.body does not carry.
Undefined == "undefined"
\* SQL NULL, as stored in a column and read back from it.
Null == "NULL"

\* req.body after express.json(): the keys servidor.js reads (nombre,
\* telefono, email) and the keys name and phone, which it never reads.
Body(name, phone, nombre, telefono, email) ==
    [name |-> name, phone |-> phone, nombre |-> nombre, telefono |-> telefono, email |-> email]

EmptyBody == Body(Undefined, Undefined, Undefined, Undefined, Undefined)

\* The request bodies tried.
Bodies ==
    { Body(Undefined, Undefined, "Ana", Undefined, "ana@x.com"),
      Body("Ana", Undefined, Undefined, Undefined, "ana@x.com"),
      Body(Undefined, Undefined, Undefined, "123", Undefined),
      Body(Undefined, Undefined, "Bea", "123", "bea@x.com"),
      Body(Undefined, Undefined, "", Undefined, "ana@x.com") }

\* One row of `usuarios`, also the JSON object built from it.
Row(id, nombre, telefono, email) ==
    [id |-> id, nombre |-> nombre, telefono |-> telefono, email |-> email]

\* What res.status(s).json(...) sends: the status, the kind of JSON body
\* ("message", "error", "record", "list"), its text and its records.
Res(status, key, text, rows) ==
    [status |-> status, key |-> key, text |-> text, rows |-> rows]

NoRes == Res(0, "", "", <<>>)

\* A client's request: pc is "idle" (none outstanding) or "query" (its
\* statement waits on the connection); stmts counts its db.query calls;
\* alone records, for a GET by id, that no statement was waiting when it
\* arrived (history, for the claims only).
Idle == [pc |-> "idle", op |-> "none", id |-> 0, body |-> EmptyBody,
         alone |-> FALSE, stmts |-> 0]

\* The exchange a step completes: the request, the outcome of its statement
\* ("none" when it issued none, "ok", "err"), the response the client gets
\* and the number of responses the handler sent.
Exchange(rq, outcome, res, sent) ==
    [op |-> rq.op, id |-> rq.id, body |-> rq.body, alone |-> rq.alone,
     stmts |-> rq.stmts, outcome |-> outcome, res |-> res, sent |-> sent]

NoOut == Exchange(Idle, "none", NoRes, 0)

VARIABLES
    connected,   \* db.connect succeeded
    usuarios,    \* the table: rows in insertion (= id) order
    autoInc,     \* the table's AUTO_INCREMENT counter
    queue,       \* the connection's command queue: clients whose statement waits
    req,         \* per client: its outstanding request
    out,         \* the exchange completed by the last step (NoOut if none)
    hist         \* history of the confirmed writes, for the claims only

vars == <<connected, usuarios, autoInc, queue, req, out, hist>>

(***************************************************************************)
(* The store: the statements of servidor.js, as MySQL runs them.           *)
(***************************************************************************)

\* A bound parameter: mysql2 sends `undefined` as NULL.
BindParam(v) == IF v = Undefined THEN Null ELSE v

\* 'SELECT * FROM usuarios'
SelectAll(t) == t

\* 'SELECT * FROM usuarios WHERE id = ?'
SelectById(t, id) == SelectSeq(t, LAMBDA row : row.id = id)

\* Mutant: the id taken from the number of rows.
InsertIdCount(t, n) == Len(t) + 1

\* Mutant: the id taken from the largest id in the table.
InsertIdMax(t, n) == IF t = <<>> THEN 1 ELSE t[Len(t)].id + 1

\* result.insertId: the AUTO_INCREMENT value given to the inserted row.
InsertId(t, n) == n

\* 'INSERT INTO usuarios (nombre, telefono, email) VALUES (?, ?, ?)'
InsertRow(t, n, nombre, telefono, email) ==
    Append(t, Row(InsertId(t, n), BindParam(nombre), BindParam(telefono), BindParam(email)))

\* Mutant: the bound values in the wrong order.
UpdateRowsSwapped(t, nombre, telefono, email, id) ==
    [i \in DOMAIN t |->
        IF t[i].id = id
        THEN Row(t[i].id, BindParam(telefono), BindParam(nombre), BindParam(email))
        ELSE t[i]]

\* Mutant: the UPDATE without its WHERE clause.
UpdateRowsNoWhere(t, nombre, telefono, email, id) ==
    [i \in DOMAIN t |->
        Row(t[i].id, BindParam(nombre), BindParam(telefono), BindParam(email))]

\* 'UPDATE usuarios SET nombre = ?, telefono = ?, email = ? WHERE id = ?'
UpdateRows(t, nombre, telefono, email, id) ==
    [i \in DOMAIN t |->
        IF t[i].id = id
        THEN Row(t[i].id, BindParam(nombre), BindParam(telefono), BindParam(email))
        ELSE t[i]]

\* 'DELETE FROM usuarios WHERE id = ?'
DeleteRows(t, id) == SelectSeq(t, LAMBDA row : row.id # id)

(***************************************************************************)
(* The handlers' decisions and the responses they send.                    *)
(***************************************************************************)

\* JavaScript `!v` on the values a body carries here.
Falsy(v) == v \in {Undefined, ""}

\* Mutant: the check written with && in place of ||.
InvalidAnd(body) == Falsy(body.nombre) /\ Falsy(body.email)

\* if (!nombre || !email)
Invalid(body) == Falsy(body.nombre) \/ Falsy(body.email)

\* Mutant: the error sent without status(500).
ErrorResNoStatus == Res(200, "error", "err.message", <<>>)

\* res.status(500).json({ error: err.message })
ErrorRes == Res(500, "error", "err.message", <<>>)

BadRequestRes == Res(400, "message", "Nombre y email son obligatorios", <<>>)

NotFoundRes == Res(404, "message", "Usuario no encontrado", <<>>)

\* The res.json calls each query callback makes, in order, for an outcome.
ListReplies(err, results) ==
    IF err THEN <<ErrorRes>> ELSE <<Res(200, "list", "", results)>>

\* Mutant: the emptiness check dropped, results[0] (undefined) sent as is.
GetRepliesNoCheck(err, results) ==
    IF err THEN <<ErrorRes>>
    ELSE <<Res(200, "record", "", IF Len(results) = 0 THEN <<>> ELSE <<results[1]>>)>>

\* Mutant: no `return` before the 404, so the record is sent as well.
GetRepliesFallThrough(err, results) ==
    IF err THEN <<ErrorRes>>
    ELSE IF Len(results) = 0 THEN <<NotFoundRes, Res(200, "record", "", <<>>)>>
    ELSE <<Res(200, "record", "", <<results[1]>>)>>

GetReplies(err, results) ==
    IF err THEN <<ErrorRes>>
    ELSE IF Len(results) = 0 THEN <<NotFoundRes>>
    ELSE <<Res(200, "record", "", <<results[1]>>)>>

\* Mutant: the created record sent without status(201).
PostRepliesNoStatus(err, insertId, body) ==
    IF err THEN <<ErrorRes>>
    ELSE <<Res(200, "record", "", <<Row(insertId, body.nombre, body.telefono, body.email)>>)>>

PostReplies(err, insertId, body) ==
    IF err THEN <<ErrorRes>>
    ELSE <<Res(201, "record", "", <<Row(insertId, body.nombre, body.telefono, body.email)>>)>>

PutReplies(err) ==
    IF err THEN <<ErrorRes>>
    ELSE <<Res(200, "message", "Usuario actualizado correctamente", <<>>)>>

DeleteReplies(err) ==
    IF err THEN <<ErrorRes>>
    ELSE <<Res(200, "message", "Usuario eliminado correctamente", <<>>)>>

\* The client gets the first response sent.
Answered(rq, outcome, replies) == Exchange(rq, outcome, replies[1], Len(replies))

Outcome(err) == IF err THEN "err" ELSE "ok"

\* A new request, not yet handled.
Fresh(op, id, body) ==
    [Idle EXCEPT !.op = op, !.id = id, !.body = body, !.alone = (op = "get" /\ queue = <<>>)]

\* db.query(sql, params, callback): one more statement of this request.
Queried(rq) == [rq EXCEPT !.pc = "query", !.stmts = @ + 1]

CanSend(r) == req[r].pc = "idle"

\* INSERT statements waiting in the queue.
PendingPosts == Cardinality({i \in 1..Len(queue) : req[queue[i]].op = "post"})

\* History: the latest confirmed UPDATE or DELETE that matched no row, kept
\* until a later confirmed UPDATE or DELETE of the same id.
Missed(miss, op, id, hit) ==
    IF ~hit THEN <<[op |-> op, id |-> id]>>
    ELSE IF miss # <<>> /\ miss[1].id = id THEN <<>>
    ELSE miss

Init ==
    /\ connected \in BOOLEAN
    /\ usuarios = <<>>
    /\ autoInc = 1
    /\ queue = <<>>
    /\ req = [r \in Clients |-> Idle]
    /\ out = NoOut
    /\ hist = [created |-> <<>>, upd |-> {}, delHit |-> {}, miss |-> <<>>]

\* The handler hands its statement to the connection and returns.
Query(r, rq) ==
    /\ req' = [req EXCEPT ![r] = Queried(rq)]
    /\ queue' = Append(queue, r)
    /\ out' = NoOut
    /\ UNCHANGED <<connected, usuarios, autoInc, hist>>

\* app.get('/api/usuarios')
List(r) ==
    /\ CanSend(r)
    /\ Query(r, Fresh("list", 0, EmptyBody))

\* app.get('/api/usuarios/:id')
GetById(r, id) ==
    /\ CanSend(r)
    /\ Query(r, Fresh("get", id, EmptyBody))

\* app.post('/api/usuarios'); the store is asked for at most `cap` rows.
Post(r, body, cap) ==
    /\ CanSend(r)
    /\ IF Invalid(body)
       THEN /\ out' = Answered(Fresh("post", 0, body), "none", <<BadRequestRes>>)
            /\ UNCHANGED <<connected, usuarios, autoInc, queue, req, hist>>
       ELSE /\ autoInc + PendingPosts <= cap
            /\ Query(r, Fresh("post", 0, body))

\* app.put('/api/usuarios/:id')
Put(r, id, body) ==
    /\ CanSend(r)
    /\ Query(r, Fresh("put", id, body))

\* app.delete('/api/usuarios/:id')
Delete(r, id) ==
    /\ CanSend(r)
    /\ Query(r, Fresh("delete", id, EmptyBody))

\* The connection answers the statement at the head of its queue.  It fails
\* when the connection was never made, and it may fail otherwise.
Heads(r, op, err) ==
    /\ queue # <<>>
    /\ Head(queue) = r
    /\ req[r].op = op
    /\ connected \/ err

\* Mutant: a failed statement is issued once more before the error is sent.
DoneRetry(r, outcome, replies) ==
    IF outcome = "err" /\ req[r].stmts < 2
    THEN /\ out' = NoOut
         /\ req' = [req EXCEPT ![r] = Queried(@)]
         /\ queue' = Append(Tail(queue), r)
    ELSE /\ out' = Answered(req[r], outcome, replies)
         /\ req' = [req EXCEPT ![r] = Idle]
         /\ queue' = Tail(queue)

\* The callback has run: the statement leaves the queue, the request is over.
Done(r, outcome, replies) ==
    /\ out' = Answered(req[r], outcome, replies)
    /\ req' = [req EXCEPT ![r] = Idle]
    /\ queue' = Tail(queue)

ListCallback(r, err) ==
    /\ Heads(r, "list", err)
    /\ Done(r, Outcome(err), ListReplies(err, SelectAll(usuarios)))
    /\ UNCHANGED <<connected, usuarios, autoInc, hist>>

GetByIdCallback(r, err) ==
    /\ Heads(r, "get", err)
    /\ Done(r, Outcome(err), GetReplies(err, SelectById(usuarios, req[r].id)))
    /\ UNCHANGED <<connected, usuarios, autoInc, hist>>

PostCallback(r, err) ==
    /\ Heads(r, "post", err)
    /\ LET b == req[r].body
           t == InsertRow(usuarios, autoInc, b.nombre, b.telefono, b.email)
           new == t[Len(t)]
           replies == PostReplies(err, new.id, b)
       IN  /\ Done(r, Outcome(err), replies)
           /\ usuarios' = IF err THEN usuarios ELSE t
           /\ autoInc' = IF err THEN autoInc ELSE autoInc + 1
           /\ hist' = IF err THEN hist
                      ELSE [hist EXCEPT
                              !.created = Append(@, [new EXCEPT !.id = replies[1].rows[1].id])]
    /\ UNCHANGED connected

PutCallback(r, err) ==
    /\ Heads(r, "put", err)
    /\ LET b == req[r].body
           id == req[r].id
           hit == SelectById(usuarios, id) # <<>>
           u == [id |-> id, nombre |-> b.nombre, telefono |-> b.telefono, email |-> b.email]
       IN  /\ Done(r, Outcome(err), PutReplies(err))
           /\ usuarios' = IF err THEN usuarios
                          ELSE UpdateRows(usuarios, b.nombre, b.telefono, b.email, id)
           /\ hist' = IF err THEN hist
                      ELSE [hist EXCEPT
                              !.upd = IF hit THEN {v \in @ : v.id # id} \cup {u} ELSE @,
                              !.miss = Missed(@, "put", id, hit)]
    /\ UNCHANGED <<connected, autoInc>>

DeleteCallback(r, err) ==
    /\ Heads(r, "delete", err)
    /\ LET id == req[r].id
           hit == SelectById(usuarios, id) # <<>>
       IN  /\ Done(r, Outcome(err), DeleteReplies(err))
           /\ usuarios' = IF err THEN usuarios ELSE DeleteRows(usuarios, id)
           /\ hist' = IF err THEN hist
                      ELSE [hist EXCEPT
                              !.upd = {v \in @ : v.id # id},
                              !.delHit = IF hit THEN @ \cup {id} ELSE @,
                              !.miss = Missed(@, "delete", id, hit)]
    /\ UNCHANGED <<connected, autoInc>>

Callback(r) ==
    \E err \in BOOLEAN :
        \/ ListCallback(r, err)
        \/ GetByIdCallback(r, err)
        \/ PostCallback(r, err)
        \/ PutCallback(r, err)
        \/ DeleteCallback(r, err)

\* The requests client r may send, with path ids and bodies drawn from the
\* given sets, and the answer to its waiting statement.
Serve(r, ids, bodies, cap) ==
    \/ List(r)
    \/ \E id \in ids : GetById(r, id)
    \/ \E body \in bodies : Post(r, body, cap)
    \/ \E id \in ids, body \in bodies : Put(r, id, body)
    \/ \E id \in ids : Delete(r, id)
    \/ Callback(r)

\* One client, sending its next request when the last one is answered.
Next == Serve(1, PathIds, Bodies, MaxId)

Spec == Init /\ [][Next]_vars

\* The inputs tried with several requests in flight: one path id, which
\* matches the one row the store is asked for while that row exists, a valid
\* and an invalid body.
ConcIds == {1}

ConcBodies ==
    { Body(Undefined, Undefined, "Ana", Undefined, "ana@x.com"),
      Body(Undefined, Undefined, Undefined, "123", Undefined) }

ConcNext == \E r \in Clients : Serve(r, ConcIds, ConcBodies, Cardinality(ConcIds))

ConcSpec == Init /\ [][ConcNext]_vars

\* The store answers every statement it is given.
FairConcSpec == ConcSpec /\ \A r \in Clients : WF_vars(Callback(r))

(***************************************************************************)
(* The claims.                                                             *)
(***************************************************************************)

\* The rows of the table whose id is `id`.
Matching(id) == {i \in DOMAIN usuarios : usuarios[i].id = id}

\* C1: a Create whose body lacks the name (the key nombre, which the handler
\* reads) or lacks the email is answered 400, and the step changes neither
\* the table nor its counter nor the connection's queue.
C1_BadRequestNoMutation ==
    [][(out'.op = "post" /\ (out'.body.nombre = Undefined \/ out'.body.email = Undefined))
        => /\ out'.res.status = 400
           /\ out'.res = BadRequestRes
           /\ usuarios' = usuarios
           /\ autoInc' = autoInc
           /\ queue' = queue]_vars

\* C1 witness: a Create without name and email, with a phone, answered 400
\* by a store that holds a row.
C1_Witness ==
    /\ out.op = "post"
    /\ out.body.nombre = Undefined
    /\ out.body.email = Undefined
    /\ out.body.telefono = "123"
    /\ out.res.status = 400
    /\ usuarios # <<>>

\* C3: a Get by id whose statement runs and matches no row is answered 404
\* {"message":"Usuario no encontrado"}; it is answered 200 exactly when a row
\* matches and the store reports no error, and then with that one row.
C3_GetByIdNotFound ==
    out.op = "get" =>
        /\ (out.outcome = "ok" /\ Matching(out.id) = {}) => out.res = NotFoundRes
        /\ out.res.status = 200 <=> (Matching(out.id) # {} /\ out.outcome = "ok")
        /\ out.res.status = 200 =>
              /\ Cardinality(Matching(out.id)) = 1
              /\ \A i \in Matching(out.id) : out.res = Res(200, "record", "", <<usuarios[i]>>)

\* C3 witness: a 404 for an id the table lacks while it holds another row.
C3_Witness ==
    /\ out.op = "get"
    /\ out.res = NotFoundRes
    /\ usuarios # <<>>
    /\ Matching(out.id) = {}

\* C6 as stated: the body {"name":"Ana","email":"ana@x.com"}, sent to an
\* empty store that reports no error, is answered 201 with id 1, nombre
\* "Ana", email "ana@x.com" and no telefono, and the store then holds that
\* one record.
C6_Original ==
    [][(/\ out'.op = "post"
        /\ out'.body = Body("Ana", Undefined, Undefined, Undefined, "ana@x.com")
        /\ out'.outcome # "err"
        /\ usuarios = <<>>)
        => /\ out'.res = Res(201, "record", "", <<Row(1, "Ana", Undefined, "ana@x.com")>>)
           /\ usuarios' = <<Row(1, "Ana", Null, "ana@x.com")>>]_vars

\* C6 amended: the body {"nombre":"Ana","email":"ana@x.com"}, sent to a store
\* whose table is empty and has never been given a row (AUTO_INCREMENT 1) and
\* that reports no error, is answered 201 with id 1, nombre "Ana", email
\* "ana@x.com" and no telefono, and the store then holds that one record,
\* its telefono NULL.
C6_CreateAna ==
    [][(/\ out'.op = "post"
        /\ out'.body = Body(Undefined, Undefined, "Ana", Undefined, "ana@x.com")
        /\ out'.outcome # "err"
        /\ usuarios = <<>>
        /\ autoInc = 1)
        => /\ out'.res = Res(201, "record", "", <<Row(1, "Ana", Undefined, "ana@x.com")>>)
           /\ usuarios' = <<Row(1, "Ana", Null, "ana@x.com")>>]_vars

\* C6 witness: that Create answered 201 with id 1, the row stored.
C6_Witness ==
    /\ out.op = "post"
    /\ out.body = Body(Undefined, Undefined, "Ana", Undefined, "ana@x.com")
    /\ out.res.status = 201
    /\ out.res.rows[1].id = 1
    /\ usuarios = <<Row(1, "Ana", Null, "ana@x.com")>>

\* C7: an Update or a Delete whose statement runs without a store error is
\* answered 200 with its confirmation message, also when the id matches no
\* row, and then the table is unchanged.
C7_WriteAlwaysConfirmed ==
    [][(out'.op \in {"put", "delete"} /\ out'.outcome = "ok")
        => /\ out'.res = Res(200, "message",
                             IF out'.op = "put" THEN "Usuario actualizado correctamente"
                             ELSE "Usuario eliminado correctamente", <<>>)
           /\ Matching(out'.id) = {} => usuarios' = usuarios]_vars

\* C7 witness: a confirmed Update or Delete that matched no row of a table
\* that holds rows.
C7_Witness ==
    /\ out.op \in {"put", "delete"}
    /\ out.res.status = 200
    /\ hist.miss = <<[op |-> out.op, id |-> out.id]>>
    /\ usuarios # <<>>

\* C9 as stated: every request issues exactly one statement, and its response
\* follows from that statement's outcome.
C9_Original ==
    out.op # "none" =>
        /\ out.stmts = 1
        /\ out.outcome \in {"ok", "err"}
        /\ out.res.status = 500 <=> out.outcome = "err"

\* C9 amended: every request issues exactly one statement and its response
\* follows from that statement's outcome (500 exactly on a store error),
\* except a Create whose nombre or email is absent or empty, which issues no
\* statement and is answered 400.
C9_OneStatement ==
    out.op # "none" =>
        IF out.op = "post" /\ (out.body.nombre \in {Undefined, ""} \/ out.body.email \in {Undefined, ""})
        THEN out.stmts = 0 /\ out.outcome = "none" /\ out.res.status = 400
        ELSE /\ out.stmts = 1
             /\ out.outcome \in {"ok", "err"}
             /\ out.res.status = 500 <=> out.outcome = "err"
             /\ out.outcome = "ok" =>
                   out.res.status = (IF out.op = "post" THEN 201
                                     ELSE IF out.op = "get" /\ Matching(out.id) = {} THEN 404
                                     ELSE 200)

\* C9 witness: a Create answered 201 from its one statement, the table full.
C9_Witness ==
    /\ out.op = "post"
    /\ out.stmts = 1
    /\ out.res.status = 201
    /\ Len(usuarios) = MaxId

\* The value a column holds for a value given in the body.
Stored(v) == IF v = Undefined THEN Null ELSE v

\* The ids the successful Creates returned, in order.
ReturnedIds == [i \in DOMAIN hist.created |-> hist.created[i].id]

NoDuplicates(q) == \A i, j \in DOMAIN q : q[i] = q[j] => i = j

\* C2 as stated: no two successful Creates return the same id, and a later
\* Get by id on a returned id, with no Delete of it in between, returns the
\* record that Create inserted (read for a Get the store answers without
\* error).
C2_Original ==
    /\ NoDuplicates(ReturnedIds)
    /\ (out.op = "get" /\ out.alone /\ out.outcome = "ok" /\ out.id \notin hist.delHit) =>
          \A i \in DOMAIN hist.created :
              hist.created[i].id = out.id =>
                  out.res = Res(200, "record", "", <<hist.created[i]>>)

\* C2 amended: no two successful Creates return the same id (also after
\* deletes), and a Get by id on a returned id, with no Update or Delete of it
\* in between and no store error on the Get, returns the record that Create
\* inserted (an absent telefono read back as NULL); after an Update of it the
\* Get still returns the record with that id.
C2_UniqueIds ==
    /\ NoDuplicates(ReturnedIds)
    /\ (out.op = "get" /\ out.outcome = "ok" /\ out.id \notin hist.delHit) =>
          \A i \in DOMAIN hist.created :
              hist.created[i].id = out.id =>
                  /\ out.res.status = 200
                  /\ out.res.rows[1].id = out.id
                  /\ (\A u \in hist.upd : u.id # out.id) =>
                        out.res = Res(200, "record", "", <<hist.created[i]>>)

\* C2 witness: two Creates answered, the first row deleted, and a Get of the
\* second id returning the row as inserted.
C2_Witness ==
    /\ out.op = "get"
    /\ out.res.status = 200
    /\ Len(hist.created) = 2
    /\ hist.delHit # {}
    /\ out.res.rows[1] = hist.created[2]

\* C4 as stated: after a confirmed Update of an id, a later Get by id on it,
\* with no other Update or Delete of that id in between, returns the record
\* with that id and the values the Update supplied (read for a Get the store
\* answers without error).
C4_Original ==
    (out.op = "get" /\ out.alone /\ out.outcome = "ok") =>
        /\ hist.miss = <<[op |-> "put", id |-> out.id]>> => out.res.status = 200
        /\ \A u \in hist.upd :
              u.id = out.id =>
                  out.res = Res(200, "record", "",
                                <<Row(u.id, Stored(u.nombre), Stored(u.telefono), Stored(u.email))>>)

\* C4 amended: after a confirmed Update of an id that matched a row when its
\* statement ran, a Get by id on it, with no other Update or Delete of that
\* id in between and no store error on the Get, returns the record with that
\* id whose nombre, telefono and email are the values of the body's keys
\* nombre, telefono and email (NULL for an absent key).
C4_UpdateThenGet ==
    (out.op = "get" /\ out.outcome = "ok") =>
        \A u \in hist.upd :
            u.id = out.id =>
                out.res = Res(200, "record", "",
                              <<Row(u.id, Stored(u.nombre), Stored(u.telefono), Stored(u.email))>>)

\* C4 witness: a Get returning the values of an Update that changed both
\* nombre and telefono of a row created with others.
C4_Witness ==
    /\ out.op = "get"
    /\ out.res.status = 200
    /\ \E u \in hist.upd :
          /\ u.id = out.id
          /\ out.res.rows[1].nombre = "Bea"
          /\ out.res.rows[1].telefono = "123"
          /\ \E i \in DOMAIN hist.created :
                hist.created[i].id = out.id /\ hist.created[i].nombre = "Ana"

\* C5 as stated: after a confirmed Delete of an id, every later Get by id on
\* it is answered 404 (read for a Get the store answers without error).
C5_Original ==
    (/\ out.op = "get"
     /\ out.alone
     /\ out.outcome = "ok"
     /\ (out.id \in hist.delHit \/ hist.miss = <<[op |-> "delete", id |-> out.id]>>))
        => out.res.status = 404

\* C5 amended: after a confirmed Delete of an id that matched a row when its
\* statement ran, the table never again holds a row with that id, whatever
\* is created later, and every Get by id on it is answered 404, or 500 when
\* the store reports an error for the Get.
C5_DeleteThenGet ==
    /\ \A id \in hist.delHit : Matching(id) = {}
    /\ (out.op = "get" /\ out.id \in hist.delHit) =>
          /\ out.outcome = "ok" => out.res = NotFoundRes
          /\ out.outcome = "err" => out.res.status = 500

\* C5 witness: a 404 for a deleted id after a later Create.
C5_Witness ==
    /\ out.op = "get"
    /\ out.id \in hist.delHit
    /\ out.res = NotFoundRes
    /\ usuarios # <<>>
    /\ usuarios[Len(usuarios)].id > out.id

\* C8: with several requests in flight, a store error for one request's
\* statement is answered 500 to that request, after its one statement (no
\* retry); the table is unchanged, every other request stays as it was and in
\* its place in the queue, and a statement that succeeds is never answered 500.
C8_ErrorIsolated ==
    [][/\ out'.outcome = "ok" => out'.res.status \in {200, 201, 404}
       /\ \A r \in Clients :
             (req[r].pc = "query" /\ req'[r] # req[r] /\ out'.outcome = "err") =>
                 /\ out'.res.status = 500
                 /\ out'.stmts = 1
                 /\ usuarios' = usuarios
                 /\ connected' = connected
                 /\ queue' = Tail(queue)
                 /\ \A s \in Clients \ {r} : req'[s] = req[s]
       /\ \A r \in Clients :
             (req[r].pc = "query" /\ req'[r] # req[r]) => req'[r].pc = "idle"]_vars

\* C8 witness: a 500 sent for a failed statement of a connected store while
\* another request's statement waits, the table holding a row.
C8_Witness ==
    /\ connected
    /\ out.outcome = "err"
    /\ out.res.status = 500
    /\ queue # <<>>
    /\ usuarios # <<>>

\* C10: every request gets at most one response on every path; a request
\* whose statement waits has none, and gets one only when the store answers
\* that statement; if the store answers every statement, every request gets
\* exactly one response.
C10_OneResponse ==
    /\ [](/\ out.sent <= 1
          /\ out.op # "none" => out.sent = 1
          /\ \A r \in Clients :
                req[r].pc = "query" <=> (\E i \in DOMAIN queue : queue[i] = r))
    /\ [][\A r \in Clients :
             (req[r].pc = "query" /\ req'[r] # req[r]) =>
                 /\ Head(queue) = r
                 /\ queue' = Tail(queue)
                 /\ req'[r].pc = "idle"
                 /\ out'.op = req[r].op
                 /\ out'.sent = 1]_vars
    /\ \A r \in Clients : (req[r].pc = "query") ~> (req[r].pc = "idle")

\* C10 witness: a 404 sent once while another request's statement waits.
C10_Witness ==
    /\ out.res = NotFoundRes
    /\ out.sent = 1
    /\ queue # <<>>

====
